---- MODULE Spec2Model ----
(***************************************************************************)
(* State-machine model of the sapphire-wm window manager: the tag/client   *)
(* data model (src/tag/mod.rs), the Screen operations (src/screen/mod.rs), *)
(* the X event handlers (src/handlers.rs) and the key/mouse callbacks      *)
(* bound in src/main.rs, together with the part of the X server state the  *)
(* handlers read and write (existing windows, mapped windows, input focus, *)
(* EWMH root/window properties).                                           *)
(***************************************************************************)
EXTENDS Integers, Sequences, FiniteSets, TLC

\* ---------------------------------------------------------------- bounds
\* Number of distinct X window ids the environment uses.
MaxWin == 3
\* Number of normal tags (src/main.rs configures nine).
NumTags == 2
\* Greatest number of clients all tags together hold in the explored states.
MaxClients == 2

\* ------------------------------------------------------- program constants
\* ID of the sticky tag, 0xFFFFFFFF (screen/mod.rs:131).  TLC integers are
\* 32-bit signed, so the all-ones pattern is written as its signed value.
StickyID == -1
\* The desktop Client::set_type writes on a dock: 0xFFFFFF.
DockDesktop == 16777215
\* Option<u32>::None of Client::wm_pid, and the "no focused client" id.
NoPid == 0
NoClient == 0
\* xcb::INPUT_FOCUS_POINTER_ROOT, the target of util::disable_input_focus.
PointerRoot == 0

Windows == 1..MaxWin
NormalTagIDs == 0..(NumTags - 1)
\* Desktop numbers a _NET_CURRENT_DESKTOP message may carry: every tag id
\* and one id that names no tag.
DesktopArgs == NormalTagIDs \cup {NumTags, StickyID}

VARIABLES
    tags,            \* Screen::tags, the sticky tag last
    focused_tag_id,  \* Screen::focused_tag_id
    crashed,         \* TRUE once a handler or callback has panicked
    alive,           \* X server: windows that exist
    mapped,          \* X server: windows that are mapped
    input_focus,     \* X server: window holding the input focus
    current_desktop, \* root property _NET_CURRENT_DESKTOP
    client_list,     \* root property _NET_CLIENT_LIST
    last,            \* the event or callback handled by the latest step
    cl,              \* a client whose state list the state operations act on
    cl_last,         \* the latest state operation called on cl
    lay,             \* a redraw on its own: its inputs and what it configures
    wk,              \* a tag on its own under the focus key bindings
    kb,              \* the key bindings and the latest KeyPress dispatched
    ms,              \* the click callbacks and the ButtonPress being handled
    cy,              \* cycle_idx on its own: its arguments and what it returns
    lk               \* the Screen mutex and the position of the event loop

vars == <<tags, focused_tag_id, crashed, alive, mapped,
          input_focus, current_desktop, client_list, last, cl, cl_last,
          lay, wk, kb, ms, cy, lk>>

\* The screen, the X server state it drives, and the client under the
\* state operations.
screen_vars == <<tags, focused_tag_id, crashed, alive, mapped,
                 input_focus, current_desktop, client_list, last>>
client_vars == <<cl, cl_last>>
layout_vars == <<lay>>
walk_vars == <<wk>>
key_vars == <<kb>>
mouse_vars == <<ms>>
cycle_vars == <<cy>>
lock_vars == <<lk>>
\* What the actions on the screen, on the client, of the layout, on the tag
\* on its own and of the two dispatchers leave alone.
not_screen_vars ==
    <<client_vars, layout_vars, walk_vars, key_vars, mouse_vars, cycle_vars,
      lock_vars>>
not_client_vars ==
    <<screen_vars, layout_vars, walk_vars, key_vars, mouse_vars, cycle_vars,
      lock_vars>>
not_layout_vars ==
    <<screen_vars, client_vars, walk_vars, key_vars, mouse_vars, cycle_vars,
      lock_vars>>
not_walk_vars ==
    <<screen_vars, client_vars, layout_vars, key_vars, mouse_vars, cycle_vars,
      lock_vars>>
not_key_vars ==
    <<screen_vars, client_vars, layout_vars, walk_vars, mouse_vars, cycle_vars,
      lock_vars>>
not_mouse_vars ==
    <<screen_vars, client_vars, layout_vars, walk_vars, key_vars, cycle_vars,
      lock_vars>>
not_cycle_vars ==
    <<client_vars, layout_vars, walk_vars, key_vars, mouse_vars, screen_vars,
      lock_vars>>
not_lock_vars ==
    <<screen_vars, client_vars, layout_vars, walk_vars, key_vars, mouse_vars,
      cycle_vars>>

\* X server: the _NET_WM_WINDOW_TYPE and _NET_WM_PID properties of each
\* window, as on_map_request reads them.  The windows of the environment
\* are, in turn, a normal window with a PID, a normal window without a PID
\* and a dock.
xtype(w) == IF w % 3 = 0 THEN "Dock" ELSE "Normal"
\* _NET_WM_STRUT_PARTIAL of window w: a dock reserves the top and the left
\* edge, one kind of normal window a smaller top and a bottom edge.
Padding(top, bottom, left, right) ==
    [top |-> top, bottom |-> bottom, left |-> left, right |-> right]
xstrut(w) ==
    CASE w % 3 = 0 -> Padding(2, 0, 1, 0)
      [] w % 3 = 2 -> Padding(1, 1, 0, 0)
      [] OTHER     -> Padding(0, 0, 0, 0)

xpid(w) == IF w % 3 = 1 THEN w + 100 ELSE NoPid

\* Whether WM_PROTOCOLS of window w lists WM_DELETE_WINDOW.
xdelete(w) == w % 2 = 0

\* ------------------------------------------------------------------ Client
\* Client::new followed by Client::set_type and the PID lookup of
\* on_map_request: a dock is not controlled and gets the Sticky state, every
\* other client is controlled and starts with no state.
NewClient(w, type, pid) ==
    [id |-> w, is_controlled |-> (type # "Dock"), type |-> type,
     wm_pid |-> pid,
     states |-> IF type = "Dock" THEN <<"Sticky">> ELSE <<>>,
     padding |-> xstrut(w)]

is_controlled(c) == c.is_controlled

has_state(c, s) == \E i \in 1..Len(c.states) : c.states[i] = s

\* --------------------------------------------------------------------- Tag
NewTag(id) == [id |-> id, focused_wid |-> NoClient, clients |-> <<>>]

contains_client(t, id) == \E i \in 1..Len(t.clients) : t.clients[i].id = id

\* Position of the first client with the id, 0 when there is none.
get_client_idx(t, id) ==
    IF contains_client(t, id)
    THEN CHOOSE i \in 1..Len(t.clients) :
            /\ t.clients[i].id = id
            /\ \A j \in 1..(i - 1) : t.clients[j].id # id
    ELSE 0

\* manage_client with push_back in place of push_front.
manage_client_back(t, c) == [t EXCEPT !.clients = Append(t.clients, c)]

manage_client(t, c) == [t EXCEPT !.clients = <<c>> \o t.clients]

unmanage_client(t, wid) ==
    [t EXCEPT !.clients = SelectSeq(t.clients, LAMBDA c : c.id # wid)]

\* The closures the callers pass as predicate: |c| c.is_controlled() and
\* |_| true. A closure is named by a string and applied by call.
IsControlled == "is_controlled"
AnyClient == "any"
call(predicate, c) ==
    IF predicate = IsControlled THEN is_controlled(c) ELSE TRUE

\* Position of the first client satisfying the predicate, 0 for ClientNotFound.
get_first_client_when(t, predicate) ==
    IF \E i \in 1..Len(t.clients) : call(predicate, t.clients[i])
    THEN CHOOSE i \in 1..Len(t.clients) :
            /\ call(predicate, t.clients[i])
            /\ \A j \in 1..(i - 1) : ~call(predicate, t.clients[j])
    ELSE 0

\* Position of the focused client, 0 for ClientNotFound.
get_focused_client(t) == get_client_idx(t, t.focused_wid)

\* Result of set_focused_client_if: the tag afterwards and whether the
\* client took the focus (Some(true)).
set_focused_client_if(t, wid, predicate) ==
    LET i == get_client_idx(t, wid) IN
    IF i # 0 /\ call(predicate, t.clients[i])
    THEN [tag |-> [t EXCEPT !.focused_wid = wid], focused |-> TRUE]
    ELSE [tag |-> t, focused |-> FALSE]

set_focused_client(t, wid) == set_focused_client_if(t, wid, AnyClient)

swap(t, wid_i, wid_j) ==
    LET i == get_client_idx(t, wid_i)
        j == get_client_idx(t, wid_j)
    IN  IF i # 0 /\ j # 0
        THEN [t EXCEPT !.clients = [t.clients EXCEPT ![i] = t.clients[j],
                                                     ![j] = t.clients[i]]]
        ELSE t

\* usize::checked_sub(b).unwrap_or(default).
checked_sub_or(a, b, default) == IF a >= b THEN a - b ELSE default

Dirs == {"Left", "Right"}

\* Result of Tag::walk: Some(id), None, or a loop that never ends.
WalkSome(id) == [some |-> TRUE, id |-> id, hangs |-> FALSE]
WalkNone == [some |-> FALSE, id |-> NoClient, hangs |-> FALSE]
WalkHangs == [some |-> FALSE, id |-> NoClient, hangs |-> TRUE]

\* The loop of Tag::walk from the index idx (indices count from 0 as in
\* the code); seen holds the indices the loop has started an iteration
\* with, and coming back to one of them without returning repeats for ever.
RECURSIVE walk_loop(_, _, _, _, _, _, _, _)
walk_loop(t, n, dir, predicate, std_idx, already_looped, idx, seen) ==
    IF idx \in seen THEN WalkHangs
    ELSE
    LET at     == IF idx < Len(t.clients) THEN idx ELSE std_idx
        client == t.clients[at + 1]
        next   == IF dir = "Left" THEN checked_sub_or(at, n, 0) ELSE at + n
    IN  IF call(predicate, client) THEN WalkSome(client.id)
        ELSE IF next = already_looped THEN WalkNone
        ELSE walk_loop(t, n, dir, predicate, std_idx, already_looped,
                       next, seen \cup {idx})

walk(t, n, dir, predicate) ==
    IF Len(t.clients) = 0 THEN WalkNone
    ELSE
    LET p == get_client_idx(t, t.focused_wid)
        find_idx(std) == IF p # 0 THEN p - 1 ELSE std
        std_idx == IF dir = "Right" THEN 0
                   ELSE checked_sub_or(Len(t.clients), n, 0)
        idx == IF dir = "Right" THEN find_idx(std_idx) + n
               ELSE checked_sub_or(find_idx(std_idx), n, std_idx)
    IN  walk_loop(t, n, dir, predicate, std_idx, idx, idx, {})

\* The cast `as usize` of an i32: a value below zero wraps to the top of
\* the usize range, where idx keeps its distance below the modulus.
as_usize(v) ==
    IF v < 0 THEN [some |-> TRUE, wrapped |-> TRUE, idx |-> 0 - v]
    ELSE [some |-> TRUE, wrapped |-> FALSE, idx |-> v]

CycleNone == [some |-> FALSE, wrapped |-> FALSE, idx |-> 0]

\* util.rs math::cycle_idx
cycle_idx(s_len, i) ==
    IF s_len > 1
    THEN as_usize(IF i < 0 THEN i + s_len ELSE i % s_len)
    ELSE CycleNone

\* Positions of the clients that are not Hidden, in the order of the tag.
VisiblePositions(t) ==
    SelectSeq([i \in 1..Len(t.clients) |-> i],
              LAMBDA i : ~has_state(t.clients[i], "Hidden"))

\* Tag::focus_by_index without a relative id: the anchor is the focused
\* client, the target the visible client cycle_idx gives; it fails when no
\* client is visible, when the focused id names no visible client and when
\* cycle_idx gives no index.
focus_by_index(t, delta) ==
    LET visible == VisiblePositions(t)
        p       == get_focused_client(t)
        anchors == {a \in 1..Len(visible) : visible[a] = p}
    IN  IF Len(visible) = 0 \/ anchors = {}
        THEN [tag |-> t, ok |-> FALSE, target |-> NoClient]
        ELSE LET anchor == (CHOOSE a \in anchors : TRUE) - 1
                 r      == cycle_idx(Len(visible), anchor + delta)
             IN  IF r.some /\ ~r.wrapped
                 THEN [tag |-> set_focused_client(
                                  t, t.clients[visible[r.idx + 1]].id).tag,
                       ok |-> TRUE,
                       target |-> t.clients[visible[r.idx + 1]].id]
                 ELSE [tag |-> t, ok |-> FALSE, target |-> NoClient]

\* client.rs Clients::move_focus on len clients with the active one at
\* active_client (counted from 0): the index of the client it activates.
move_focus(len, active_client, dir) ==
    LET idx == IF dir = "Right" THEN active_client + 1
               ELSE checked_sub_or(active_client, 1, len - 1)
    IN  IF idx < len THEN idx ELSE 0

\* The "Move focus to left / right" key bindings on a tag: the tag afterwards
\* and what walk returned.
focus_binding(t, dir) ==
    LET r == walk(t, 1, dir, IsControlled)
    IN  [tag |-> IF r.some THEN set_focused_client(t, r.id).tag ELSE t,
         walked |-> r]

\* Ids of the clients Tag::map / Tag::unmap act on: the non-Hidden ones.
VisibleIds(t) ==
    {t.clients[i].id : i \in {j \in 1..Len(t.clients) :
                                 ~has_state(t.clients[j], "Hidden")}}

ClientIds(t) == {t.clients[i].id : i \in 1..Len(t.clients)}

\* ------------------------------------------------------------------ Screen
\* Position in the tag vector of the first tag with the id, 0 for TagNotFound.
get_tag(ts, id) ==
    IF \E i \in 1..Len(ts) : ts[i].id = id
    THEN CHOOSE i \in 1..Len(ts) :
            /\ ts[i].id = id
            /\ \A j \in 1..(i - 1) : ts[j].id # id
    ELSE 0

contains_tag(ts, id) == \E i \in 1..Len(ts) : ts[i].id = id

sticky_tag(ts) == Len(ts)

RECURSIVE TotalClients(_)
TotalClients(ts) ==
    IF ts = <<>> THEN 0 ELSE Len(Head(ts).clients) + TotalClients(Tail(ts))

\* Screen::refresh: the window ids it writes to _NET_CLIENT_LIST, those of
\* the clients of every tag (the property is kept as the set it lists).
refresh(ts) == UNION {ClientIds(ts[i]) : i \in 1..Len(ts)}

\* ---------------------------------------------------------------- X server
\* xcb::set_input_focus: takes effect only on a viewable window.
SetInputFocus(focus, mp, w) == IF w \in mp THEN w ELSE focus

\* xcb::map_window: a destroyed window cannot be mapped.
MapWindows(mp, ws) == mp \cup (ws \cap alive)

\* xcb::unmap_window: the focus reverts when the focus window is unmapped.
RevertFocus(focus, mp) == IF focus # PointerRoot /\ focus \notin mp
                          THEN PointerRoot ELSE focus

\* The event or callback a step handles and how its handler returned:
\* "Ok", an error that the loop logs and discards, or "Panic".
Event(op, arg, res) == [op |-> op, arg |-> arg, res |-> res]

\* ----------------------------------------------------------- client states
\* ClientState, and the states and operations the callers pass.
ClientStates == {"Tile", "Fullscreen", "Maximized", "Sticky", "Hidden"}
StateArgs == {"Fullscreen", "Maximized", "Sticky", "Hidden"}
Operations == {"Add", "Remove", "Toggle", "Unknown"}

\* ClientState::_net_wm_state: the atoms of a state; Tile is the atom 0.
net_wm_state(s) ==
    CASE s = "Fullscreen" -> <<"WM_STATE_FULLSCREEN">>
      [] s = "Maximized"  -> <<"WM_STATE_MAXIMIZED_VERT",
                               "WM_STATE_MAXIMIZED_HORZ">>
      [] s = "Sticky"     -> <<"WM_STATE_STICKY">>
      [] s = "Hidden"     -> <<"WM_STATE_HIDDEN">>
      [] s = "Tile"       -> <<"ATOM_NONE">>

\* states.iter().flat_map(|s| s._net_wm_state(conn)).collect()
RECURSIVE flat_map_net_wm_state(_)
flat_map_net_wm_state(states) ==
    IF states = <<>> THEN <<>>
    ELSE net_wm_state(Head(states)) \o flat_map_net_wm_state(Tail(states))

\* Client::last_state: states.last().unwrap_or(Tile)
last_state(c) ==
    IF c.states = <<>> THEN "Tile" ELSE c.states[Len(c.states)]

\* add_state without the has_state test.
add_state_unguarded(c, state) ==
    [c EXCEPT !.wm_state = @ \o net_wm_state(state),
              !.states = Append(@, state)]

\* add_state that appends the atoms before the has_state test.
add_state_appends_first(c, state) ==
    IF has_state(c, state)
    THEN [c EXCEPT !.wm_state = @ \o net_wm_state(state)]
    ELSE [c EXCEPT !.wm_state = @ \o net_wm_state(state),
                   !.states = Append(@, state)]

\* Client::add_state; wm_state is the WM_STATE property of the window, which
\* the call appends to (PROP_MODE_APPEND).
add_state(c, state) ==
    IF has_state(c, state)
    THEN c
    ELSE [c EXCEPT !.wm_state = @ \o net_wm_state(state),
                   !.states = Append(@, state)]

\* Client::remove_state; the call replaces the property (PROP_MODE_REPLACE).
remove_state(c, state) ==
    IF ~has_state(c, state)
    THEN c
    ELSE LET st == SelectSeq(c.states, LAMBDA s : s # state)
         IN  [c EXCEPT !.states = st,
                       !.wm_state = flat_map_net_wm_state(st)]

\* Client::set_state: the client afterwards and the result, Ok(()) or the
\* Err(String) of the Unknown arm.
set_state(c, state, operation) ==
    CASE operation = "Add" ->
            [client |-> add_state(c, state), res |-> "Ok"]
      [] operation = "Remove" ->
            [client |-> remove_state(c, state), res |-> "Ok"]
      [] operation = "Toggle" ->
            [client |-> IF has_state(c, state)
                        THEN remove_state(c, state)
                        ELSE add_state(c, state),
             res |-> "Ok"]
      [] OTHER -> [client |-> c, res |-> "Unknown operation"]

\* ClientAction, and the action lists the callers pass.
ClientActions ==
    {"Fullscreen", "Maximize", "ChangeTag", "Resize", "Move", "Close"}
ControlledActions == <<"Maximize", "Fullscreen", "ChangeTag", "Resize", "Move">>
ActionLists ==
    {<<"Resize">>, <<"Close", "Close">>, <<"Close", "Move">>,
     ControlledActions}

\* ClientAction::_net_wm_allowed_actions
net_wm_allowed_actions(a) ==
    CASE a = "Fullscreen" -> <<"WM_ACTION_FULLSCREEN">>
      [] a = "ChangeTag"  -> <<"WM_ACTION_CHANGE_DESKTOP">>
      [] a = "Maximize"   -> <<"WM_ACTION_MAXIMIZE_VERT",
                               "WM_ACTION_MAXIMIZE_HORZ">>
      [] a = "Resize"     -> <<"WM_ACTION_RESIZE">>
      [] a = "Close"      -> <<"WM_ACTION_CLOSE">>
      [] a = "Move"       -> <<"WM_ACTION_MOVE">>

RECURSIVE flat_map_net_wm_allowed_actions(_)
flat_map_net_wm_allowed_actions(actions) ==
    IF actions = <<>> THEN <<>>
    ELSE net_wm_allowed_actions(Head(actions))
           \o flat_map_net_wm_allowed_actions(Tail(actions))

\* Client::allows_action
allows_action(c, a) ==
    \E i \in 1..Len(c.allowed_actions) : c.allowed_actions[i] = a

\* Client::allow_action: returns when the action is allowed already, else
\* rewrites _NET_WM_ALLOWED_ACTIONS from the list as it is; the list itself
\* is not written.
allow_action(c, action) ==
    IF allows_action(c, action)
    THEN c
    ELSE [c EXCEPT !.wm_allowed_actions =
                      flat_map_net_wm_allowed_actions(c.allowed_actions)]

\* Client::allow_actions: the actions not allowed so far are appended, each
\* tested against the list as it was before the call.
allow_actions(c, actions) ==
    LET new_actions == SelectSeq(actions, LAMBDA a : ~allows_action(c, a))
        all == c.allowed_actions \o new_actions
    IN  [c EXCEPT !.allowed_actions = all,
                  !.wm_allowed_actions = flat_map_net_wm_allowed_actions(all)]

\* client/mod.rs Client::new: the state list starts as vec![Tile], the
\* window has no WM_STATE property yet; Close is allowed, a dock gets the
\* Sticky state and every other client the actions of a controlled client.
Client_new(type) ==
    LET c0 == [states |-> <<"Tile">>, wm_state |-> <<>>,
               allowed_actions |-> <<>>, wm_allowed_actions |-> <<>>,
               is_controlled |-> FALSE]
        c  == allow_action(c0, "Close")
    IN  IF type = "Dock"
        THEN add_state(c, "Sticky")
        ELSE allow_actions([c EXCEPT !.is_controlled = TRUE],
                           ControlledActions)

StateCall(op, state, operation, res, before) ==
    [op |-> op, state |-> state, operation |-> operation, res |-> res,
     before |-> before]

\* ----------------------------------------------------------------- layout
\* Size of the X screen and the Config values of the explored states.
ScreenW == 24
ScreenH == 20
BorderSize == 1
GapSize == 1
ScreenConfig ==
    [screen_w |-> ScreenW, screen_h |-> ScreenH,
     border_size |-> BorderSize, gap_size |-> GapSize]

\* clients.iter().map(|c| c.padding.<side>).max().unwrap_or(0)
RECURSIVE max_padding(_, _)
max_padding(clients, side) ==
    IF clients = <<>> THEN 0
    ELSE LET m == max_padding(Tail(clients), side)
             p == Head(clients).padding[side]
         IN  IF p > m THEN p ELSE m

redraw_paddings(clients) ==
    Padding(max_padding(clients, "top"), max_padding(clients, "bottom"),
            max_padding(clients, "left"), max_padding(clients, "right"))

Rect(x, y, w, h, border) ==
    [x |-> x, y |-> y, w |-> w, h |-> h, border |-> border, set |-> TRUE]
NoRect == [x |-> 0, y |-> 0, w |-> 0, h |-> 0, border |-> 0, set |-> FALSE]

\* Positions in clients of the clients redraw tiles: controlled and not
\* Hidden.
normal_clients(clients) ==
    SelectSeq([i \in 1..Len(clients) |-> i],
              LAMBDA i : last_state(clients[i]) # "Hidden"
                         /\ is_controlled(clients[i]))

\* redraw: the geometry of the last configure_window request each client
\* gets, NoRect for a client that gets none.  cfg holds the screen size and
\* the Config values.
redraw(clients, cfg) ==
    LET b  == cfg.border_size
        g  == cfg.gap_size
        pd == redraw_paddings(clients)
        available_w == cfg.screen_w - pd.left - pd.right
        available_h == cfg.screen_h - pd.top - pd.bottom
        nc == normal_clients(clients)
        n  == Len(nc)
        tile(k) ==
            IF k = 1
            THEN Rect(g, g + pd.top,
                      IF n = 1 THEN available_w - (b * 2) - (g * 2)
                               ELSE (available_w \div 2) - b - g,
                      available_h - (b * 2) - (g * 2), b)
            ELSE LET height_per_window == available_h \div (n - 1)
                 IN  Rect((available_w \div 2) + g,
                          (height_per_window * (k - 2)) + pd.top + g,
                          (available_w \div 2) - (b * 2) - (g * 2),
                          IF clients[nc[k]].id = clients[nc[n]].id
                          THEN height_per_window - (b * 2) - (g * 2)
                          ELSE height_per_window - b - g,
                          b)
        pos(i) == CHOOSE k \in 1..n : nc[k] = i
    IN  [i \in 1..Len(clients) |->
           IF ~is_controlled(clients[i]) THEN NoRect
           ELSE IF last_state(clients[i]) = "Fullscreen"
           THEN Rect(0, 0, cfg.screen_w, cfg.screen_h, 0)
           ELSE IF last_state(clients[i]) = "Maximized"
           THEN Rect(pd.left, pd.top, available_w, available_h, 0)
           ELSE IF last_state(clients[i]) = "Hidden" THEN NoRect
           ELSE tile(pos(i))]

\* Manager::refresh_tag without the sticky clients.
refresh_tag_clients_alone(ts, ti) == ts[ti].clients

\* Manager::refresh_tag: the clients it hands to redraw, the sticky clients
\* first.
refresh_tag_clients(ts, ti) == ts[sticky_tag(ts)].clients \o ts[ti].clients

refresh_tag(ts, ti) == redraw(refresh_tag_clients(ts, ti), ScreenConfig)

\* ------------------------------------------------------------------- Init
Screen_new ==
    /\ tags = [i \in 1..(NumTags + 1) |->
                 IF i <= NumTags THEN NewTag(i - 1) ELSE NewTag(StickyID)]
    /\ focused_tag_id = 0
    /\ crashed = FALSE
    /\ alive = {}
    /\ mapped = {}
    /\ input_focus = PointerRoot
    /\ current_desktop = 0
    /\ client_list = {}
    /\ last = Event("Init", 0, "Ok")

\* The client under the state operations, as Client::new leaves it.
Client_init(type) ==
    /\ cl = Client_new(type)
    /\ cl_last = StateCall("new", "Tile", "None", "Ok", Client_new(type))

\* The redraw on its own has not run.
Layout_init == lay = [input |-> "none", out |-> <<>>, status |-> "none"]

Walk_init == wk = [tag |-> NewTag(1), op |-> "none", res |-> NoClient]

\* KeyCombination: the (keycode, modifier) pairs of the environment.
KeyCombinations == [keycode : {1, 2}, modifier : {0, 1}]

\* What a callback returns.
CallbackResults == {"Ok", "Err"}

\* The keyboard with the bindings in actions and no KeyPress dispatched yet.
KeyIdle(actions) ==
    [actions |-> actions, op |-> "none",
     combination |-> [keycode |-> 1, modifier |-> 0],
     called |-> <<>>, res |-> "Ok", logged |-> FALSE]

Keyboard_init == kb = KeyIdle({})

\* The mouse with the click callbacks in on_click (each named by what it
\* returns) and no ButtonPress under way.
MouseIdle(on_click) ==
    [on_click |-> on_click, pc |-> "idle", child |-> NoClient,
     frozen |-> FALSE, released |-> FALSE, i |-> 1, got |-> <<>>,
     logged |-> FALSE]

Mouse_init == ms = MouseIdle(<<>>)

Cycle_init == cy = [s |-> 0, i |-> 0, op |-> "none", res |-> CycleNone]

\* The event loop waiting for an event with the Screen mutex free; called
\* lists the callbacks of the event that have returned, each with what it
\* returned.
LoopIdle ==
    [pc |-> "wait", held |-> FALSE, deadlocked |-> FALSE, event |-> "none",
     callbacks |-> <<>>, called |-> <<>>, acquired |-> 0,
     outcome |-> "none"]

Lock_init == lk = LoopIdle

\* The parts of the initial state that the screen does not hold.
Rest_init ==
    Layout_init /\ Walk_init /\ Keyboard_init /\ Mouse_init /\ Cycle_init
    /\ Lock_init

Init == Screen_new /\ Client_init("Normal") /\ Rest_init

\* ----------------------------------------------------------------- events
\* util::set_client_tag: the _NET_WM_DESKTOP a handler wrote, as the pair of
\* the window and the value; the empty tuple when it wrote none.
set_client_tag(w, tag_id) == <<w, tag_id>>
NotWritten == <<>>

\* Client::set_type: the desktop it writes for a client of the type.
set_type(w, type, tag_id) ==
    IF type = "Dock" THEN set_client_tag(w, DockDesktop)
    ELSE set_client_tag(w, tag_id)

\* An event that may have written a _NET_WM_DESKTOP.
DesktopEvent(op, arg, res, wm_desktop) ==
    [op |-> op, arg |-> arg, res |-> res, wm_desktop |-> wm_desktop]

\* A client maps its window w (creating it first when it does not exist)
\* and the loop runs handlers.rs on_map_request for it.
on_map_request(w) ==
    /\ ~crashed
    /\ UNCHANGED not_screen_vars
    /\ alive' = alive \cup {w}
    /\ LET mp   == mapped \cup {w}
           type == xtype(w)
           ti   == IF type = "Dock" THEN sticky_tag(tags)
                   ELSE get_tag(tags, focused_tag_id)
       IN
       IF ti = 0
       THEN \* get_focused_tag_mut().unwrap() on a missing tag
            /\ crashed' = TRUE
            /\ mapped' = mp
            /\ last' = DesktopEvent("MapRequest", w, "Panic", NotWritten)
            /\ UNCHANGED <<tags, focused_tag_id, input_focus,
                           current_desktop, client_list>>
       ELSE IF contains_client(tags[ti], w)
       THEN /\ mapped' = mp
            /\ last' = DesktopEvent("MapRequest", w, "Ok", NotWritten)
            /\ UNCHANGED <<tags, focused_tag_id, crashed, input_focus,
                           current_desktop, client_list>>
       ELSE /\ TotalClients(tags) < MaxClients
            /\ LET client == NewClient(w, type, xpid(w))
                   r == set_focused_client_if(manage_client(tags[ti], client),
                                              w, IsControlled)
                   ts == [tags EXCEPT ![ti] = r.tag]
               IN  /\ tags' = ts
                   /\ mapped' = mp
                   /\ input_focus' = IF r.focused
                                     THEN SetInputFocus(input_focus, mp, w)
                                     ELSE input_focus
                   /\ client_list' = refresh(ts)
                   /\ last' = DesktopEvent("MapRequest", w, "Ok",
                                            set_type(w, type, tags[ti].id))
                   /\ UNCHANGED <<focused_tag_id, crashed, current_desktop>>

\* A DestroyNotify handled for w; signalled is the PID that kill -9 was run
\* on, NoPid when it was not run.
DestroyEvent(w, res, signalled) ==
    [op |-> "DestroyNotify", arg |-> w, res |-> res, signalled |-> signalled]

\* Window w is destroyed (a window that was never mapped included) and the
\* loop runs handlers.rs on_destroy_notify for it.
on_destroy_notify(w) ==
    /\ ~crashed
    /\ UNCHANGED not_screen_vars
    /\ alive' = alive \ {w}
    /\ mapped' = mapped \ {w}
    /\ UNCHANGED <<focused_tag_id, current_desktop>>
    /\ LET f0 == RevertFocus(input_focus, mapped \ {w})
           fi == get_tag(tags, focused_tag_id)
       IN
       IF fi = 0
       THEN /\ crashed' = TRUE
            /\ input_focus' = f0
            /\ last' = DestroyEvent(w, "Panic", NoPid)
            /\ UNCHANGED <<tags, client_list>>
       ELSE IF get_client_idx(tags[fi], w) = 0
       THEN /\ input_focus' = f0
            /\ last' = DestroyEvent(w, "Ok", NoPid)
            /\ UNCHANGED <<tags, crashed, client_list>>
       ELSE LET client == tags[fi].clients[get_client_idx(tags[fi], w)]
                t1 == unmanage_client(tags[fi], client.id)
                k  == get_first_client_when(t1, IsControlled)
            IN  /\ last' = DestroyEvent(w, "Ok", client.wm_pid)
                /\ UNCHANGED crashed
                /\ IF client.wm_pid # NoPid
                   THEN LET r == IF k # 0
                                 THEN set_focused_client(t1, t1.clients[k].id)
                                 ELSE [tag |-> t1, focused |-> FALSE]
                            ts == [tags EXCEPT ![fi] = r.tag]
                        IN  /\ tags' = ts
                            /\ input_focus' =
                                 IF r.focused
                                 THEN SetInputFocus(f0, mapped \ {w},
                                                    r.tag.focused_wid)
                                 ELSE f0
                            /\ client_list' = refresh(ts)
                   ELSE /\ tags' = [tags EXCEPT ![fi] = t1]
                        /\ input_focus' = f0
                        /\ UNCHANGED client_list

\* screen/mod.rs Screen::view_tag: the state it leaves and its result.
\* A view_tag that performs its requests whatever tag is in view.
is_focused_tag_never(id) == FALSE

\* self.get_focused_tag().is_ok_and(|t| t.id == id)
is_focused_tag(id) ==
    LET fi == get_tag(tags, focused_tag_id)
    IN  fi # 0 /\ tags[fi].id = id

view_tag(id) ==
    LET fi == get_tag(tags, focused_tag_id)
        di == get_tag(tags, id)
    IN  IF is_focused_tag(id)
        THEN [res |-> "Ok", mapped |-> mapped, input_focus |-> input_focus,
              focused_tag_id |-> focused_tag_id,
              current_desktop |-> current_desktop]
        ELSE IF di = 0
        THEN [res |-> "TagNotFound", mapped |-> mapped,
              input_focus |-> input_focus,
              focused_tag_id |-> focused_tag_id,
              current_desktop |-> current_desktop]
        ELSE LET mp1 == MapWindows(mapped, VisibleIds(tags[di]))
                 f1  == IF get_focused_client(tags[di]) # 0
                        THEN SetInputFocus(input_focus, mp1,
                                           tags[di].focused_wid)
                        ELSE PointerRoot
                 mp2 == IF fi # 0 THEN mp1 \ VisibleIds(tags[fi]) ELSE mp1
             IN  [res |-> "Ok", mapped |-> mp2,
                  input_focus |-> RevertFocus(f1, mp2),
                  focused_tag_id |-> id, current_desktop |-> id]

ApplyViewTag(v) ==
    /\ mapped' = v.mapped
    /\ input_focus' = v.input_focus
    /\ focused_tag_id' = v.focused_tag_id
    /\ current_desktop' = v.current_desktop
    /\ UNCHANGED <<tags, crashed, client_list, alive>>

\* main.rs: the "View tag[i]" key binding.
KeyViewTag(id) ==
    /\ ~crashed
    /\ UNCHANGED not_screen_vars
    /\ IF get_tag(tags, focused_tag_id) = 0
       THEN /\ last' = Event("KeyViewTag", id, "TagNotFound")
            /\ UNCHANGED <<tags, focused_tag_id, crashed, mapped, input_focus,
                           current_desktop, client_list, alive>>
       ELSE IF id # focused_tag_id
       THEN LET v == view_tag(id)
            IN  /\ ApplyViewTag(v)
                /\ last' = Event("KeyViewTag", id, v.res)
       ELSE /\ last' = Event("KeyViewTag", id, "Ok")
            /\ UNCHANGED <<tags, focused_tag_id, crashed, mapped, input_focus,
                           current_desktop, client_list, alive>>

\* ClientMessage of type _NET_CURRENT_DESKTOP: view_tag(data[0]).
on_client_message_view_desktop(id) ==
    /\ ~crashed
    /\ UNCHANGED not_screen_vars
    /\ LET v == view_tag(id)
       IN  /\ ApplyViewTag(v)
           /\ last' = Event("ViewDesktop", id, v.res)

\* screen/mod.rs Screen::move_focused_client: the state it leaves and its
\* result.  "Panic" is get_focused_client_mut().unwrap() on a source tag
\* whose focused id names none of its clients.
Screen_move_focused_client(scr, src, dest) ==
    LET same(res) == [res |-> res, tags |-> scr.tags, mapped |-> scr.mapped,
                      input_focus |-> scr.input_focus,
                      wm_desktop |-> NotWritten]
    IN
    IF ~contains_tag(scr.tags, src) THEN same("TagNotFound")
    ELSE IF ~contains_tag(scr.tags, dest) THEN same("TagNotFound")
    ELSE LET si == get_tag(scr.tags, src) IN
         IF get_focused_client(scr.tags[si]) = 0 THEN same("Panic")
         ELSE
         LET client == scr.tags[si].clients[get_focused_client(scr.tags[si])]
             mp1 == scr.mapped \ {client.id}
             f0  == RevertFocus(scr.input_focus, mp1)
             s1  == unmanage_client(scr.tags[si], client.id)
             k   == get_first_client_when(s1, IsControlled)
             s2  == IF k # 0
                    THEN set_focused_client(s1, s1.clients[k].id).tag
                    ELSE s1
             f1  == IF k # 0
                    THEN SetInputFocus(f0, mp1, s1.clients[k].id)
                    ELSE PointerRoot
             ts1 == [scr.tags EXCEPT ![si] = s2]
             di  == get_tag(ts1, dest)
             d1  == manage_client(ts1[di], client)
             r2  == set_focused_client(d1, client.id)
         IN  [res |-> "Ok",
              tags |-> [ts1 EXCEPT ![di] = r2.tag],
              mapped |-> mp1,
              input_focus |-> IF r2.focused
                              THEN SetInputFocus(f1, mp1, client.id)
                              ELSE f1,
              wm_desktop |-> set_client_tag(client.id, dest)]

\* Screen::move_focused_client on the current state.
move_focused_client(src, dest) ==
    Screen_move_focused_client(
        [tags |-> tags, mapped |-> mapped, input_focus |-> input_focus],
        src, dest)

\* main.rs: the "Move focused client to tag [i]" key binding.
KeyMoveFocusedClient(id) ==
    /\ ~crashed
    /\ UNCHANGED not_screen_vars
    /\ UNCHANGED <<focused_tag_id, current_desktop, client_list, alive>>
    /\ IF get_tag(tags, focused_tag_id) = 0
       THEN /\ last' = DesktopEvent("KeyMoveFocusedClient", id,
                                     "TagNotFound", NotWritten)
            /\ UNCHANGED <<tags, crashed, mapped, input_focus>>
       ELSE IF id # focused_tag_id
       THEN LET m == move_focused_client(focused_tag_id, id)
            IN  /\ tags' = m.tags
                /\ mapped' = m.mapped
                /\ input_focus' = m.input_focus
                /\ crashed' = (m.res = "Panic")
                /\ last' = DesktopEvent("KeyMoveFocusedClient", id, m.res,
                                         m.wm_desktop)
       ELSE /\ last' = DesktopEvent("KeyMoveFocusedClient", id, "Ok",
                                     NotWritten)
            /\ UNCHANGED <<tags, crashed, mapped, input_focus>>

\* main.rs: the click callback ("focus on click"); c_id is the child window
\* under the pointer, 0 when the click hit the root window.
MouseClick(c_id) ==
    /\ ~crashed
    /\ UNCHANGED not_screen_vars
    /\ c_id = 0 \/ c_id \in mapped
    /\ UNCHANGED <<focused_tag_id, crashed, mapped, current_desktop,
                   client_list, alive>>
    /\ LET fi == get_tag(tags, focused_tag_id) IN
       IF fi = 0
       THEN /\ last' = Event("MouseClick", c_id, "TagNotFound")
            /\ UNCHANGED <<tags, input_focus>>
       ELSE LET focus_id == IF get_focused_client(tags[fi]) # 0
                            THEN tags[fi].focused_wid ELSE 0
                r == IF focus_id # c_id
                     THEN set_focused_client_if(tags[fi], c_id, IsControlled)
                     ELSE [tag |-> tags[fi], focused |-> FALSE]
            IN  /\ tags' = [tags EXCEPT ![fi] = r.tag]
                /\ input_focus' = IF r.focused
                                  THEN SetInputFocus(input_focus, mapped, c_id)
                                  ELSE input_focus
                /\ last' = Event("MouseClick", c_id, "Ok")

\* main.rs: the "Swaps the current client on tag to the master window" key
\* binding.
KeySwapMaster ==
    /\ ~crashed
    /\ UNCHANGED not_screen_vars
    /\ UNCHANGED <<focused_tag_id, crashed, mapped, input_focus,
                   current_desktop, client_list, alive>>
    /\ LET fi == get_tag(tags, focused_tag_id) IN
       IF fi = 0
       THEN /\ last' = Event("KeySwapMaster", 0, "TagNotFound")
            /\ UNCHANGED tags
       ELSE LET c1 == get_focused_client(tags[fi])
                c2 == get_first_client_when(tags[fi], IsControlled)
            IN  /\ tags' = IF c1 # 0 /\ c2 # 0
                           THEN [tags EXCEPT ![fi] =
                                   swap(tags[fi], tags[fi].clients[c1].id,
                                        tags[fi].clients[c2].id)]
                           ELSE tags
                /\ last' = Event("KeySwapMaster", 0, "Ok")

\* ------------------------------------------------------------------- Next
\* Client::kill: the request it sends for the window.
kill(w) == IF xdelete(w) THEN "WM_DELETE_WINDOW" ELSE "KillClient"

\* main.rs key binding "Kill the focused client on the current tag.".
KeyKill ==
    /\ ~crashed
    /\ UNCHANGED not_screen_vars
    /\ UNCHANGED <<tags, focused_tag_id, crashed, mapped, input_focus,
                   current_desktop, client_list, alive>>
    /\ LET fi == get_tag(tags, focused_tag_id)
           c  == IF fi = 0 THEN 0 ELSE get_focused_client(tags[fi])
       IN  last' = [op |-> "KeyKill",
                    arg |-> IF c = 0 THEN NoClient ELSE tags[fi].clients[c].id,
                    res |-> IF fi = 0 THEN "TagNotFound" ELSE "Ok",
                    request |-> IF c = 0 THEN "none"
                                ELSE kill(tags[fi].clients[c].id),
                    signalled |-> NoPid]

KeyFocusOp(dir) == IF dir = "Left" THEN "KeyFocusLeft" ELSE "KeyFocusRight"

\* main.rs key bindings "Move focus to left." and "Move focus to right.".
\* A walk that never returns keeps the loop from handling further events.
KeyFocus(dir) ==
    /\ ~crashed
    /\ UNCHANGED not_screen_vars
    /\ UNCHANGED <<focused_tag_id, mapped, input_focus,
                   current_desktop, client_list, alive>>
    /\ LET fi == get_tag(tags, focused_tag_id) IN
       IF fi = 0
       THEN /\ last' = Event(KeyFocusOp(dir), 0, "TagNotFound")
            /\ UNCHANGED <<tags, crashed>>
       ELSE LET r == focus_binding(tags[fi], dir)
            IN  /\ tags' = [tags EXCEPT ![fi] = r.tag]
                /\ crashed' = r.walked.hangs
                /\ last' = Event(KeyFocusOp(dir), 0,
                                 IF r.walked.hangs THEN "Hang" ELSE "Ok")

Next ==
    \/ \E dir \in Dirs : KeyFocus(dir)
    \/ KeyKill
    \/ \E w \in Windows : on_map_request(w)
    \/ \E w \in Windows : on_destroy_notify(w)
    \/ \E id \in NormalTagIDs : KeyViewTag(id)
    \/ \E id \in DesktopArgs : on_client_message_view_desktop(id)
    \/ \E id \in NormalTagIDs : KeyMoveFocusedClient(id)
    \/ \E c_id \in Windows \cup {0} : MouseClick(c_id)
    \/ KeySwapMaster

Spec == Init /\ [][Next]_vars

\* ------------------------------------- the tags WindowManager::new builds
\* tag/mod.rs Manager::new on the tags WindowManager::new makes of n
\* configured aliases, with the ids 0..n-1: one tag with id 0 when there is
\* none, and then the sticky tag with the id tags.len() - 1.
Manager_new(n) ==
    LET given == [i \in 1..n |-> NewTag(i - 1)]
        tgs   == IF Len(given) = 0 THEN <<NewTag(0)>> ELSE given
    IN  Append(tgs, NewTag(Len(tgs) - 1))

\* The window manager constructed from a configuration of up to NumTags
\* aliases.
InitManager ==
    /\ \E n \in 0..NumTags : tags = Manager_new(n)
    /\ focused_tag_id = 0
    /\ crashed = FALSE
    /\ alive = {}
    /\ mapped = {}
    /\ input_focus = PointerRoot
    /\ current_desktop = 0
    /\ client_list = {}
    /\ last = Event("Init", 0, "Ok")
    /\ Client_init("Normal")
    /\ Rest_init

SpecManager == InitManager /\ [][Next]_vars

\* ------------------------------------------- the state operations on their own
\* A caller adds, removes or sets a state of the client.
AddState(state) ==
    /\ cl' = add_state(cl, state)
    /\ cl_last' = StateCall("add_state", state, "None", "Ok", cl)
    /\ UNCHANGED not_client_vars

RemoveState(state) ==
    /\ cl' = remove_state(cl, state)
    /\ cl_last' = StateCall("remove_state", state, "None", "Ok", cl)
    /\ UNCHANGED not_client_vars

SetState(state, operation) ==
    LET r == set_state(cl, state, operation)
    IN  /\ cl' = r.client
        /\ cl_last' = StateCall("set_state", state, operation, r.res, cl)
        /\ UNCHANGED not_client_vars

InitClient ==
    /\ Screen_new
    /\ \E type \in {"Normal", "Dock"} : Client_init(type)
    /\ Rest_init

NextClient ==
    \/ \E state \in StateArgs : AddState(state)
    \/ \E state \in StateArgs : RemoveState(state)
    \/ \E state \in StateArgs : \E operation \in Operations :
          SetState(state, operation)

SpecClient == InitClient /\ [][NextClient]_vars

\* ------------------------------------------------------ redraw on its own
\* Greatest number of tiled clients, border width, gap and dock strut of the
\* redraws explored on their own.
MaxTiled == 4
MaxBorderSize == 2
MaxGapSize == 2
MaxStrut == 2

\* The states a client of a redraw may have last.
LayoutStates == {"Tile", "Fullscreen", "Maximized"}

\* The clients of a redraw: a dock with the given strut and one controlled
\* client for each entry of sts, with that state (none for Tile).
LayoutClients(pads, sts) ==
    <<[NewClient(0, "Dock", NoPid) EXCEPT !.padding = pads]>>
    \o [k \in 1..Len(sts) |->
          [NewClient(k, "Normal", NoPid) EXCEPT
              !.padding = Padding(0, 0, 0, 0),
              !.states = IF sts[k] = "Tile" THEN <<>> ELSE <<sts[k]>>]]

\* No u32 subtraction of redraw goes below zero for the input; n is the
\* number of clients redraw tiles.
NoUnderflow(inp) ==
    LET b == inp.cfg.border_size
        g == inp.cfg.gap_size
        n == Len(inp.sts)
        available_w == inp.cfg.screen_w - inp.pads.left - inp.pads.right
        available_h == inp.cfg.screen_h - inp.pads.top - inp.pads.bottom
    IN  /\ available_w >= 0
        /\ available_h - (b * 2) - (g * 2) >= 0
        /\ IF n = 1
           THEN available_w - (b * 2) - (g * 2) >= 0
           ELSE /\ (available_w \div 2) - (b * 2) - (g * 2) >= 0
                /\ (available_h \div (n - 1)) - (b * 2) - (g * 2) >= 0

LayoutInputs ==
    [cfg : [screen_w : {ScreenW, ScreenW + 1},
            screen_h : {ScreenH, ScreenH + 1},
            border_size : 0..MaxBorderSize,
            gap_size : 0..MaxGapSize],
     pads : [top : {0, MaxStrut}, bottom : {0, MaxStrut},
             left : {0, MaxStrut}, right : {0, MaxStrut}],
     sts : UNION {[1..n -> LayoutStates] : n \in 1..MaxTiled}]

\* redraw is called once for the input.  A subtraction that goes below zero
\* panics in a build with overflow checks and wraps in one without; the
\* requests that follow a wrap are not kept.
Redraw ==
    /\ lay.status = "none"
    /\ \/ /\ NoUnderflow(lay.input)
          /\ lay' = [lay EXCEPT
                       !.status = "Ok",
                       !.out = redraw(LayoutClients(lay.input.pads,
                                                    lay.input.sts),
                                      lay.input.cfg)]
       \/ /\ ~NoUnderflow(lay.input)
          /\ \E st \in {"Panic", "Wrapped"} : lay' = [lay EXCEPT !.status = st]
    /\ UNCHANGED not_layout_vars

InitLayout ==
    /\ Screen_new
    /\ Client_init("Normal")
    /\ \E inp \in LayoutInputs :
          lay = [input |-> inp, out |-> <<>>, status |-> "none"]
    /\ Walk_init /\ Keyboard_init /\ Mouse_init /\ Cycle_init
    /\ Lock_init

NextLayout == Redraw

SpecLayout == InitLayout /\ [][NextLayout]_vars

\* ------------------------------------------------ the _NET_WM_STATE message
\* The types, data[0] and data[1] of the ClientMessages of the environment:
\* _NET_WM_STATE and a type without a handler; remove, add, toggle and a
\* number that is none of them; the fullscreen atom and another state atom.
MessageTypes == {"WM_STATE", "WM_PING"}
StateActions == 0..3
MessageAtoms == {"WM_STATE_FULLSCREEN", "WM_STATE_HIDDEN"}

\* The match on data[0] of on_client_message.
message_operation(data0) ==
    CASE data0 = 1 -> "Add"
      [] data0 = 0 -> "Remove"
      [] data0 = 2 -> "Toggle"
      [] OTHER     -> "Unknown"

\* Client::set_state on a client of the screen, whose WM_STATE property is
\* not kept in the state.
client_set_state(c, state, operation) ==
    [c EXCEPT !.states =
        set_state([states |-> c.states, wm_state |-> <<>>],
                  state, operation).client.states]

\* handlers.rs on_client_message for a message of the type with the data
\* (data0, atom) sent for window w.
on_client_message(w, type, data0, atom) ==
    /\ ~crashed
    /\ UNCHANGED not_screen_vars
    /\ UNCHANGED <<focused_tag_id, crashed, alive, mapped, input_focus,
                   current_desktop, client_list>>
    /\ LET operation == message_operation(data0)
           fi == get_tag(tags, focused_tag_id)
           i  == IF fi = 0 THEN 0 ELSE get_client_idx(tags[fi], w)
           act == type = "WM_STATE" /\ i # 0 /\ atom = "WM_STATE_FULLSCREEN"
           ts == IF act
                 THEN [tags EXCEPT ![fi].clients[i] =
                          client_set_state(@, "Fullscreen", operation)]
                 ELSE tags
       IN  /\ tags' = ts
           /\ last' = [op |-> "ClientMessage", arg |-> w, res |-> "Ok",
                       type |-> type, operation |-> operation,
                       state |-> atom,
                       arranged |-> IF act THEN fi ELSE 0,
                       geometry |-> IF act THEN refresh_tag(ts, fi)
                                    ELSE <<>>]

NextMessage ==
    \/ \E w \in Windows : on_map_request(w)
    \/ \E id \in NormalTagIDs : KeyViewTag(id)
    \/ \E w \in Windows, type \in MessageTypes, data0 \in StateActions,
          atom \in MessageAtoms : on_client_message(w, type, data0, atom)

SpecMessage == Init /\ [][NextMessage]_vars

\* ------------------------------------------ the focus bindings on their own
\* The tags the bindings are explored on: clients of distinct windows in
\* any order, and a focused id that is none, or the id of a controlled
\* window whether or not it is still in the tag.
WalkSeqs(n) ==
    {q \in [1..n -> Windows] : \A i, j \in 1..n : i # j => q[i] # q[j]}

WalkTags ==
    {[id |-> IF \E i \in DOMAIN q : xtype(q[i]) = "Dock"
             THEN StickyID ELSE 1,
      focused_wid |-> f,
      clients |-> [i \in DOMAIN q |->
                     NewClient(q[i], xtype(q[i]), xpid(q[i]))]] :
        f \in {NoClient} \cup {w \in Windows : xtype(w) # "Dock"},
        q \in UNION {WalkSeqs(m) : m \in 0..MaxWin}}

\* A focus key is pressed on the tag.
WalkKey(dir) ==
    /\ wk.op # "Hang"
    /\ LET r == focus_binding(wk.tag, dir)
       IN  wk' = [tag |-> r.tag,
                  op  |-> IF r.walked.hangs THEN "Hang" ELSE dir,
                  res |-> r.walked.id]
    /\ UNCHANGED not_walk_vars

InitWalk ==
    /\ Screen_new
    /\ Client_init("Normal")
    /\ Layout_init /\ Keyboard_init /\ Mouse_init /\ Cycle_init
    /\ Lock_init
    /\ \E t \in WalkTags : wk = [tag |-> t, op |-> "none", res |-> NoClient]

NextWalk == \E dir \in Dirs : WalkKey(dir)

SpecWalk == InitWalk /\ [][NextWalk]_vars

\* ------------------------------------------------ focus_by_index on its own
Deltas == {-1, 0, 1}

\* The focus is moved by delta on the tag.
FocusByIndex(delta) ==
    /\ LET r == focus_by_index(wk.tag, delta)
       IN  wk' = [tag |-> r.tag,
                  op  |-> IF r.ok THEN "FocusByIndex" ELSE "Failed",
                  res |-> r.target]
    /\ UNCHANGED not_walk_vars

NextIndex == \E delta \in Deltas : FocusByIndex(delta)

SpecIndex == InitWalk /\ [][NextIndex]_vars

\* --------------------------------------------------- Tag::walk on its own
\* Tag::walk takes any client list: every position holds a client of either
\* type, and the focused id is none or any window, in the list or not.
ClientTypes == {"Normal", "Dock"}

AnyTagsOf(m) ==
    {[id |-> 1,
      focused_wid |-> f,
      clients |-> [i \in 1..m |-> NewClient(q[i], ty[i], NoPid)]] :
        f \in {NoClient} \cup Windows,
        q \in WalkSeqs(m),
        ty \in [1..m -> ClientTypes]}

AnyTags == UNION {AnyTagsOf(m) : m \in 0..MaxWin}

InitTerminate ==
    /\ Screen_new
    /\ Client_init("Normal")
    /\ Layout_init /\ Keyboard_init /\ Mouse_init /\ Cycle_init
    /\ Lock_init
    /\ \E t \in AnyTags :
          wk = [tag |-> t, op |-> "none", res |-> NoClient]

SpecTerminate == InitTerminate /\ [][NextWalk]_vars

\* ------------------------------------------------- the KeyPress dispatchers
\* window_manager.rs handle, KEY_PRESS arm: the callback registered for the
\* combination is called and its error handed to notify_error; without a
\* binding nothing is done.  cb_res is what the callback returns.
KeyPressHandle(combination, cb_res) ==
    /\ kb' = IF combination \in kb.actions
             THEN [kb EXCEPT !.op = "handle", !.combination = combination,
                             !.called = <<combination>>, !.res = "Ok",
                             !.logged = (cb_res = "Err")]
             ELSE [kb EXCEPT !.op = "handle", !.combination = combination,
                             !.called = <<>>, !.res = "Ok",
                             !.logged = FALSE]
    /\ UNCHANGED not_key_vars

\* keyboard/mod.rs Keyboard::trigger: the result of the callback, or the
\* Error::Custom of the None arm.
KeyboardTrigger(combination, cb_res) ==
    /\ kb' = IF combination \in kb.actions
             THEN [kb EXCEPT !.op = "trigger", !.combination = combination,
                             !.called = <<combination>>, !.res = cb_res,
                             !.logged = FALSE]
             ELSE [kb EXCEPT !.op = "trigger", !.combination = combination,
                             !.called = <<>>, !.res = "hahaha",
                             !.logged = FALSE]
    /\ UNCHANGED not_key_vars

InitKeys ==
    /\ Screen_new
    /\ Client_init("Normal")
    /\ Layout_init /\ Walk_init /\ Mouse_init /\ Cycle_init
    /\ Lock_init
    /\ \E actions \in SUBSET KeyCombinations : kb = KeyIdle(actions)

NextKeys ==
    \/ \E c \in KeyCombinations, r \in CallbackResults : KeyPressHandle(c, r)
    \/ \E c \in KeyCombinations, r \in CallbackResults : KeyboardTrigger(c, r)

SpecKeys == InitKeys /\ [][NextKeys]_vars

\* --------------------------------------------------- the handling of a click
\* Greatest number of click callbacks registered.
MaxOnClick == 3

\* xcb::allow_events(ALLOW_REPLAY_POINTER) keeping the pointer frozen.
allow_events_keeps(frozen) == frozen

\* xcb::allow_events(ALLOW_REPLAY_POINTER) and the flush: whether the pointer
\* is still frozen afterwards.
allow_events(frozen) == FALSE

\* The button is pressed over the window child: the synchronous grab of
\* Mouse::listen_event freezes the pointer and the event reaches the loop.
ButtonPress(child) ==
    /\ ms.pc = "idle"
    /\ ms' = [MouseIdle(ms.on_click) EXCEPT
                 !.pc = "event", !.child = child, !.frozen = TRUE]
    /\ UNCHANGED not_mouse_vars

\* window_manager.rs handle, BUTTON_PRESS arm, up to the flush.
AllowEvents ==
    /\ ms.pc = "event"
    /\ ms' = [ms EXCEPT !.frozen = allow_events(ms.frozen),
                        !.released = TRUE, !.pc = "trigger", !.i = 1]
    /\ UNCHANGED not_mouse_vars

\* Mouse::trigger_with: one turn of its loop over on_click, or its return
\* when the callbacks are used up.  An Err of a callback is returned at
\* once by the ? operator and logged by handle.
TriggerWith ==
    /\ ms.pc = "trigger"
    /\ ms' = IF ms.i > Len(ms.on_click)
             THEN [ms EXCEPT !.pc = "idle"]
             ELSE LET info == [cb |-> ms.i, c_id |-> ms.child,
                               frozen |-> ms.frozen]
                  IN  IF ms.on_click[ms.i] = "Err"
                      THEN [ms EXCEPT !.got = Append(@, info),
                                      !.logged = TRUE, !.pc = "idle"]
                      ELSE [ms EXCEPT !.got = Append(@, info),
                                      !.i = @ + 1]
    /\ UNCHANGED not_mouse_vars

InitMouse ==
    /\ Screen_new
    /\ Client_init("Normal")
    /\ Layout_init /\ Walk_init /\ Keyboard_init /\ Cycle_init
    /\ Lock_init
    /\ \E n \in 1..MaxOnClick :
          \E on_click \in [1..n -> CallbackResults] : ms = MouseIdle(on_click)

NextMouse ==
    \/ \E child \in Windows \cup {NoClient} : ButtonPress(child)
    \/ AllowEvents
    \/ TriggerWith

SpecMouse == InitMouse /\ [][NextMouse]_vars

\* ----------------------------------------------------- cycle_idx on its own
\* Greatest sequence length and greatest walk in either direction.
MaxSeqLen == 4
MaxWalk == 9

\* cycle_idx is called on the arguments.
CycleIdx ==
    /\ cy.op = "none"
    /\ cy' = [cy EXCEPT !.op = "cycle_idx", !.res = cycle_idx(cy.s, cy.i)]
    /\ UNCHANGED not_cycle_vars

InitCycle ==
    /\ Screen_new
    /\ Client_init("Normal")
    /\ Layout_init /\ Walk_init /\ Keyboard_init /\ Mouse_init
    /\ Lock_init
    /\ \E s_len \in 0..MaxSeqLen, i \in (0 - MaxWalk)..MaxWalk :
          cy = [s |-> s_len, i |-> i, op |-> "none", res |-> CycleNone]

NextCycle == CycleIdx

SpecCycle == InitCycle /\ [][NextCycle]_vars

\* ----------------------------------------- the allowed actions on their own
AllowAction(action) ==
    /\ cl' = allow_action(cl, action)
    /\ cl_last' = StateCall("allow_action", <<action>>, "None", "Ok", cl)
    /\ UNCHANGED not_client_vars

AllowActions(actions) ==
    /\ cl' = allow_actions(cl, actions)
    /\ cl_last' = StateCall("allow_actions", actions, "None", "Ok", cl)
    /\ UNCHANGED not_client_vars

NextAllow ==
    \/ \E action \in ClientActions : AllowAction(action)
    \/ \E actions \in ActionLists : AllowActions(actions)

SpecAllow == InitClient /\ [][NextAllow]_vars

\* ------------------------------------------------------ the Screen mutex
\* The events WindowManager::handle dispatches, the callbacks main.rs binds
\* to keys, and what a handler or callback returns: Ok(()) at its end, an
\* early return of Ok(()), the Err of a `?`, or a panic of an unwrap.
EventKinds ==
    {"CLIENT_MESSAGE", "CONFIGURE_REQUEST", "MAP_REQUEST", "DESTROY_NOTIFY",
     "KEY_PRESS", "BUTTON_PRESS"}
Bindings ==
    {"Spawn", "Kill", "FocusLeft", "FocusRight", "SwapMaster", "Fullscreen",
     "Maximize", "ViewTag", "MoveFocusedClient"}
ClickCallback == "FocusOnClick"
Outcomes == {"Ok", "Return", "Err", "Panic"}

\* Mutex::lock on the mutex of the loop's own thread: a second lock while
\* a guard is alive never returns.
lock(l) ==
    IF l.held THEN [l EXCEPT !.deadlocked = TRUE]
    ELSE [l EXCEPT !.held = TRUE, !.acquired = @ + 1]

\* The MutexGuard goes out of scope.
drop(l) == [l EXCEPT !.held = FALSE]

\* EventContext::new that keeps the guard it took.
EventContext_new_keeps(l) == lock(l)

\* EventContext::new: locks the mutex to read focused_tag_id inside a block
\* of its own, at whose end the guard is dropped.
EventContext_new(l) ==
    LET g == lock(l) IN IF g.deadlocked THEN g ELSE drop(g)

\* Whether a callback, or the handler of an event, locks the mutex: every
\* one does except the spawn bindings and on_configure_request.
callback_locks(cb) == cb # "Spawn"
handler_locks(e) == e \in {"CLIENT_MESSAGE", "MAP_REQUEST", "DESTROY_NOTIFY"}

\* What each handler and callback can return.
handler_outcomes(e) ==
    CASE e = "MAP_REQUEST"    -> {"Ok", "Return", "Panic"}
      [] e = "DESTROY_NOTIFY" -> {"Ok", "Return", "Panic"}
      [] OTHER                -> {"Ok"}
callback_outcomes(cb) ==
    CASE cb \in {"Fullscreen", "Maximize"} -> {"Ok", "Return", "Err"}
      [] OTHER                             -> {"Ok", "Err"}

\* The loop takes the next event: a ClientMessage, ConfigureRequest,
\* MapRequest or DestroyNotify goes to its handler, a KeyPress to the
\* callback bound to the key, if any, and a ButtonPress to the click
\* callbacks.
WaitForEvent(e, cbs) ==
    /\ lk.pc = "wait"
    /\ CASE e = "KEY_PRESS"    -> Len(cbs) <= 1
                                  /\ \A i \in DOMAIN cbs : cbs[i] \in Bindings
         [] e = "BUTTON_PRESS" -> \A i \in DOMAIN cbs : cbs[i] = ClickCallback
         [] OTHER              -> cbs = <<>>
    /\ lk' = [lk EXCEPT !.event = e, !.callbacks = cbs, !.called = <<>>,
                        !.acquired = 0, !.outcome = "none",
                        !.pc = IF e = "KEY_PRESS"
                               THEN IF cbs = <<>> THEN "flush" ELSE "context"
                               ELSE IF e = "BUTTON_PRESS" THEN "context"
                               ELSE "handler"]
    /\ UNCHANGED not_lock_vars

\* handle builds the EventContext of a KeyPress or a ButtonPress.
NewContext ==
    /\ lk.pc = "context"
    /\ LET l == EventContext_new(lk)
       IN  lk' = IF l.deadlocked THEN l ELSE [l EXCEPT !.pc = "call"]
    /\ UNCHANGED not_lock_vars

\* The next callback is called and takes its lock; with none left the
\* dispatch is over.
CallbackEnter ==
    /\ lk.pc = "call"
    /\ IF lk.callbacks = <<>>
       THEN lk' = [lk EXCEPT !.pc = "flush"]
       ELSE LET l == IF callback_locks(Head(lk.callbacks))
                     THEN lock(lk) ELSE lk
            IN  lk' = IF l.deadlocked THEN l ELSE [l EXCEPT !.pc = "body"]
    /\ UNCHANGED not_lock_vars

\* The callback returns and its guard is dropped; an Err ends the dispatch
\* (the `?` of Mouse::trigger_with).
CallbackReturn(outcome) ==
    /\ lk.pc = "body"
    /\ outcome \in callback_outcomes(Head(lk.callbacks))
    /\ lk' = [drop(lk) EXCEPT !.outcome = outcome,
                              !.called = Append(@, <<Head(lk.callbacks),
                                                   outcome>>),
                              !.callbacks = IF outcome = "Err" THEN <<>>
                                            ELSE Tail(lk.callbacks),
                              !.pc = "call"]
    /\ UNCHANGED not_lock_vars

\* The handler of the event is entered and takes its lock.
HandlerEnter ==
    /\ lk.pc = "handler"
    /\ LET l == IF handler_locks(lk.event) THEN lock(lk) ELSE lk
       IN  lk' = IF l.deadlocked THEN l ELSE [l EXCEPT !.pc = "handler_body"]
    /\ UNCHANGED not_lock_vars

\* The handler returns and its guard is dropped; a panic unwinds through
\* the guard and ends the process.
HandlerReturn(outcome) ==
    /\ lk.pc = "handler_body"
    /\ outcome \in handler_outcomes(lk.event)
    /\ lk' = [drop(lk) EXCEPT !.outcome = outcome,
                              !.pc = IF outcome = "Panic" THEN "exited"
                                     ELSE "flush"]
    /\ UNCHANGED not_lock_vars

\* handle flushes the connection and the loop waits for the next event.
Flush ==
    /\ lk.pc = "flush"
    /\ lk' = [lk EXCEPT !.pc = "wait"]
    /\ UNCHANGED not_lock_vars

ClickCallbacks == UNION {[1..n -> {ClickCallback}] : n \in 0..MaxOnClick}
KeyCallbacks == {<<>>} \cup {<<b>> : b \in Bindings}

NextLock ==
    \/ \E e \in EventKinds, cbs \in ClickCallbacks \cup KeyCallbacks :
          WaitForEvent(e, cbs)
    \/ NewContext
    \/ CallbackEnter
    \/ \E outcome \in Outcomes : CallbackReturn(outcome)
    \/ HandlerEnter
    \/ \E outcome \in Outcomes : HandlerReturn(outcome)
    \/ Flush

SpecLock == Init /\ [][NextLock]_vars

\* ------------------------------------------------------------- properties
FocusedTag == get_tag(tags, focused_tag_id)

Managed(ts) == UNION {ClientIds(ts[i]) : i \in 1..Len(ts)}

\* Number of clients with id w over all tags.
Holders(ts, w) ==
    Cardinality({p \in (1..Len(ts)) \X (1..MaxClients + 1) :
                    /\ p[2] <= Len(ts[p[1]].clients)
                    /\ ts[p[1]].clients[p[2]].id = w})

\* C1: every tag's focused client id is 0 or the id of one of the tag's
\* clients.
C1_FocusedClientIsManaged ==
    \A i \in 1..Len(tags) :
        \/ tags[i].focused_wid = NoClient
        \/ contains_client(tags[i], tags[i].focused_wid)

\* C2: each window id is held by at most one client over all tags, the
\* sticky tag included.
C2_OneClientPerWindow == \A w \in Windows : Holders(tags, w) <= 1

\* C3: after DestroyNotify(w) no tag contains a client with id w, and a
\* DestroyNotify for a window no tag holds leaves every tag and the focused
\* tag as they were.
C3_DestroyRemovesClient ==
    [][\A w \in Windows :
          (last'.op = "DestroyNotify" /\ last'.arg = w) =>
             /\ \A i \in 1..Len(tags') : ~contains_client(tags'[i], w)
             /\ (w \notin Managed(tags)) =>
                   (tags' = tags /\ focused_tag_id' = focused_tag_id
                    /\ client_list' = client_list)]_vars

\* C4: no handler and no callback aborts the event loop.
C4_LoopNeverAborts == crashed = FALSE

\* C5: the managed windows that are mapped are the non-Hidden clients of the
\* focused tag together with the clients of the sticky tag.
C5_MappedIsFocusedPlusSticky ==
    mapped \cap Managed(tags) =
        (IF FocusedTag # 0 THEN VisibleIds(tags[FocusedTag]) ELSE {})
        \cup ClientIds(tags[sticky_tag(tags)])

\* C6: focused_tag_id always names a normal tag, never the sticky tag; a
\* view_tag of an id that names no tag fails with TagNotFound and changes
\* nothing.
C6_FocusedTagIsNormal ==
    [][/\ focused_tag_id' \in NormalTagIDs
       /\ (last'.op = "ViewDesktop" /\ ~contains_tag(tags, last'.arg)) =>
             /\ last'.res = "TagNotFound"
             /\ focused_tag_id' = focused_tag_id
             /\ mapped' = mapped
             /\ tags' = tags]_vars

\* C7: MapRequest(w) for a non-Dock window that no tag holds puts exactly
\* one controlled client with id w at the front of the focused tag, makes it
\* the focused client of that tag and leaves every other tag as it was.
C7_MapRequestManagesAtFront ==
    [][\A w \in Windows :
          (/\ last'.op = "MapRequest" /\ last'.arg = w
           /\ xtype(w) # "Dock"
           /\ w \notin Managed(tags)) =>
             /\ FocusedTag # 0
             /\ tags'[FocusedTag].clients # <<>>
             /\ Head(tags'[FocusedTag].clients).id = w
             /\ Head(tags'[FocusedTag].clients).is_controlled
             /\ Tail(tags'[FocusedTag].clients) = tags[FocusedTag].clients
             /\ tags'[FocusedTag].focused_wid = w
             /\ \A i \in 1..Len(tags) :
                   i # FocusedTag => tags'[i] = tags[i]]_vars

\* A new normal window has just been managed in front of an older client.
C7_Witness ==
    /\ last.op = "MapRequest"
    /\ xtype(last.arg) = "Normal"
    /\ FocusedTag # 0
    /\ Len(tags[FocusedTag].clients) >= 2
    /\ Head(tags[FocusedTag].clients).id = last.arg
    /\ tags[FocusedTag].clients[2].id # last.arg
    /\ tags[FocusedTag].focused_wid = last.arg
    /\ Holders(tags, last.arg) = 1

\* C8: MapRequest(w) for a Dock window that no tag holds adds the client to
\* the sticky tag only, gives no tag the focused id w and leaves the focused
\* tag as it was; no non-Dock client is ever in the sticky tag.
C8_DockGoesToStickyOnly ==
    [][/\ \A i \in 1..Len(tags'[sticky_tag(tags')].clients) :
             tags'[sticky_tag(tags')].clients[i].type = "Dock"
       /\ \A w \in Windows :
             (/\ last'.op = "MapRequest" /\ last'.arg = w
              /\ xtype(w) = "Dock"
              /\ w \notin Managed(tags)) =>
                /\ contains_client(tags'[sticky_tag(tags')], w)
                /\ \A i \in 1..Len(tags) :
                      /\ tags'[i].focused_wid # w
                      /\ i # sticky_tag(tags) => tags'[i] = tags[i]
                /\ FocusedTag # 0
                /\ tags'[FocusedTag] = tags[FocusedTag]]_vars

\* C9: MapRequest(w) for a window some tag already holds maps the window
\* and changes no tag's client list and no tag's focused id.
C9_MapRequestOfManagedIsNoOp ==
    [][\A w \in Windows :
          (/\ last'.op = "MapRequest" /\ last'.arg = w
           /\ w \in Managed(tags)) =>
             (tags' = tags /\ w \in mapped')]_vars

\* C10: after DestroyNotify(w), a tag whose focused client was w has as
\* focused id its first remaining controlled client, or 0 with the input
\* focus disabled when none remains; a tag that held w unfocused keeps its
\* focused id.
C10_DestroyRefocuses ==
    [][\A w \in Windows : \A i \in 1..Len(tags) :
          (/\ last'.op = "DestroyNotify" /\ last'.arg = w
           /\ contains_client(tags[i], w)) =>
             IF tags[i].focused_wid = w
             THEN LET k == get_first_client_when(tags'[i], IsControlled)
                  IN  IF k # 0
                      THEN tags'[i].focused_wid = tags'[i].clients[k].id
                      ELSE /\ tags'[i].focused_wid = NoClient
                           /\ input_focus' = PointerRoot
             ELSE tags'[i].focused_wid = tags[i].focused_wid]_vars

\* C11: move_focused_client(src, dst) between two existing tags, src having
\* a focused client c, takes c out of src and puts it at the front of dst,
\* makes c the focused id of dst and the first remaining controlled client
\* (0 if none) the focused id of src, and keeps the number of clients of
\* every id over all tags; when src or dst names no tag it returns
\* TagNotFound and changes no tag.
C11_MoveFocusedClient ==
    [][\A dst \in NormalTagIDs :
          (last'.op = "KeyMoveFocusedClient" /\ last'.arg = dst
           /\ dst # focused_tag_id) =>
             LET si == get_tag(tags, focused_tag_id)
                 di == get_tag(tags, dst)
             IN  IF si = 0 \/ di = 0
                 THEN last'.res = "TagNotFound" /\ tags' = tags
                 ELSE get_focused_client(tags[si]) # 0 =>
                        LET c == tags[si].focused_wid
                            k == get_first_client_when(tags'[si], IsControlled)
                        IN  /\ ~contains_client(tags'[si], c)
                            /\ tags'[di].clients # <<>>
                            /\ Head(tags'[di].clients).id = c
                            /\ tags'[di].focused_wid = c
                            /\ tags'[si].focused_wid =
                                  IF k # 0 THEN tags'[si].clients[k].id
                                  ELSE NoClient
                            /\ \A w \in Windows :
                                  Holders(tags', w) = Holders(tags, w)]_vars

\* C14: _NET_CLIENT_LIST on the root holds exactly the ids of the clients of
\* all tags, the sticky tag included, and no id of a destroyed window.
C14_ClientListIsManaged ==
    /\ client_list = Managed(tags)
    /\ client_list \subseteq alive

\* C15: within one tag no two clients have the same id.
C15_NoDuplicateInTag ==
    \A i \in 1..Len(tags) : \A j, k \in 1..Len(tags[i].clients) :
        j # k => tags[i].clients[j].id # tags[i].clients[k].id

C12_MoveRoundTrip ==
    \A si, di \in 1..Len(tags) :
        (si # di /\ get_focused_client(tags[si]) # 0) =>
            LET m1 == move_focused_client(tags[si].id, tags[di].id)
                m2 == Screen_move_focused_client(m1, tags[di].id, tags[si].id)
            IN  /\ m1.res = "Ok"
                /\ m2.res = "Ok"
                /\ m2.tags[si].focused_wid = tags[si].focused_wid
                /\ m2.tags[di].focused_wid = tags[di].focused_wid

NoDuplicates(seq) ==
    \A i, j \in 1..Len(seq) : i # j => seq[i] # seq[j]

\* C16: after any sequence of add_state, remove_state and set_state calls
\* from construction the client's state list holds no state twice.
C16_StatesAreDistinct == NoDuplicates(cl.states)

\* add_state has just been called for a state the client already had, and
\* the client holds three states or more.
C16_Witness ==
    /\ cl_last.op \in {"add_state", "set_state"}
    /\ cl_last.operation \in {"None", "Add"}
    /\ has_state(cl_last.before, cl_last.state)
    /\ Len(cl.states) >= 3

\* C17: for every state s of Fullscreen, Maximized, Sticky and Hidden and
\* every state list, set_state(s, Toggle) applied twice gives back the same
\* list in the same order, and so the same last_state.
C17_ToggleTwiceRestores ==
    \A s \in StateArgs :
        LET t1 == set_state(cl, s, "Toggle").client
            t2 == set_state(t1, s, "Toggle").client
        IN  /\ t2.states = cl.states
            /\ last_state(t2) = last_state(cl)

\* C18: add_state(s) applied twice leaves the state list and the WM_STATE
\* property that one add_state(s) leaves.
C18_AddStateIdempotent ==
    \A s \in StateArgs :
        LET a1 == add_state(cl, s)
            a2 == add_state(a1, s)
        IN  a2.states = a1.states /\ a2.wm_state = a1.wm_state

\* add_state has just been called a second time in a row for the same state
\* on a client whose window has a WM_STATE property.
C18_Witness ==
    /\ cl_last.op = "add_state"
    /\ has_state(cl_last.before, cl_last.state)
    /\ last_state(cl) = cl_last.state
    /\ cl = cl_last.before
    /\ cl.wm_state # <<>>

\* C19: Tile is never in the stored state list; a new client has an empty
\* list, and last_state is the last state pushed, Tile exactly when the list
\* is empty.
C19_TileIsNeverStored ==
    /\ ~has_state(cl, "Tile")
    /\ (cl_last.op = "new") => (cl.states \in {<<>>, <<"Sticky">>})
    /\ (last_state(cl) = "Tile") <=> (cl.states = <<>>)
    /\ (cl.states # <<>>) => (last_state(cl) = cl.states[Len(cl.states)])

\* C20: set_state with an operation other than Add, Remove and Toggle fails
\* with InvalidOperation and leaves the state list and the WM_STATE property
\* as they were; with Add, Remove or Toggle it returns Ok.
C20_UnknownOperationFails ==
    (cl_last.op = "set_state") =>
        IF cl_last.operation \in {"Add", "Remove", "Toggle"}
        THEN cl_last.res = "Ok"
        ELSE /\ cl_last.res = "InvalidOperation"
             /\ cl = cl_last.before

\* The atoms a stored state stands for in WM_STATE; Tile stands for none.
StateAtoms(s) ==
    CASE s = "Fullscreen" -> <<"WM_STATE_FULLSCREEN">>
      [] s = "Maximized"  -> <<"WM_STATE_MAXIMIZED_VERT",
                               "WM_STATE_MAXIMIZED_HORZ">>
      [] s = "Sticky"     -> <<"WM_STATE_STICKY">>
      [] s = "Hidden"     -> <<"WM_STATE_HIDDEN">>
      [] OTHER            -> <<>>

RECURSIVE ConcatStateAtoms(_)
ConcatStateAtoms(states) ==
    IF states = <<>> THEN <<>>
    ELSE StateAtoms(Head(states)) \o ConcatStateAtoms(Tail(states))

\* C22: the WM_STATE property of the window holds the atoms of the stored
\* states, in the order of the state list, and is empty when the client has
\* no state.
C22_PropertyMatchesStates == cl.wm_state = ConcatStateAtoms(cl.states)

\* C23: after allow_action(a) the client allows a and after allow_actions(as)
\* every action of as; the list of allowed actions holds no action twice;
\* _NET_WM_ALLOWED_ACTIONS holds the atoms of the whole list; a new client
\* allows Close, and one that is not a dock the five actions of a controlled
\* client as well.
C23_AllowedActions ==
    /\ NoDuplicates(cl.allowed_actions)
    /\ cl.wm_allowed_actions =
          flat_map_net_wm_allowed_actions(cl.allowed_actions)
    /\ (cl_last.op \in {"allow_action", "allow_actions"}) =>
          \A i \in 1..Len(cl_last.state) : allows_action(cl, cl_last.state[i])
    /\ allows_action(cl, "Close")
    /\ ~has_state(cl, "Sticky") =>
          \A i \in 1..Len(ControlledActions) :
              allows_action(cl, ControlledActions[i])

Sides == {"top", "bottom", "left", "right"}

SetMax(S) == CHOOSE m \in S : \A x \in S : x <= m

\* Greatest padding of a side over the clients of a tag, 0 for an empty tag.
TagPadding(t, side) ==
    SetMax({t.clients[i].padding[side] : i \in 1..Len(t.clients)} \cup {0})

\* C24: the padding a redraw of a tag uses on each side is the greater of the
\* tag's own padding (the greatest padding of its clients, 0 when it has
\* none) and the sticky tag's, so that with a dock of top strut p and no
\* other padding the available height is the screen height less p.
C24_PaddingIsPointwiseMax ==
    \A ti \in 1..Len(tags) :
        LET used == redraw_paddings(refresh_tag_clients(tags, ti))
            st   == tags[sticky_tag(tags)]
        IN  /\ \A side \in Sides :
                  used[side] = SetMax({TagPadding(tags[ti], side),
                                       TagPadding(st, side)})
            /\ (TagPadding(tags[ti], "top") = 0
                /\ TagPadding(tags[ti], "bottom") = 0
                /\ TagPadding(st, "bottom") = 0) =>
                  \A i \in 1..Len(refresh_tag(tags, ti)) :
                     LET r == refresh_tag(tags, ti)[i]
                     IN  (r.set /\ r.border # 0) =>
                            /\ r.y >= TagPadding(st, "top") + GapSize
                            /\ r.y + r.h + 2 * r.border + GapSize <= ScreenH
                            /\ (r.x = GapSize) =>
                                  r.h + 2 * r.border + 2 * GapSize
                                    = ScreenH - TagPadding(st, "top")

\* A dock is in the sticky tag and a normal tag holds a client with a
\* smaller top padding and a greater bottom padding than the dock's, so that
\* the redraw of the tag takes one side from each.
C24_Witness ==
    LET st == tags[sticky_tag(tags)]
    IN  /\ st.clients # <<>>
        /\ \E ti \in 1..NumTags :
              /\ TagPadding(tags[ti], "top") > 0
              /\ TagPadding(tags[ti], "top") < TagPadding(st, "top")
              /\ TagPadding(tags[ti], "bottom") > TagPadding(st, "bottom")
              /\ redraw_paddings(refresh_tag_clients(tags, ti)).top
                    = TagPadding(st, "top")
              /\ redraw_paddings(refresh_tag_clients(tags, ti)).bottom
                    = TagPadding(tags[ti], "bottom")

\* The rectangles a redraw on its own gave the tiled clients, in the order
\* of the clients, and the available rectangle of its input.
Tiles == SelectSeq(lay.out, LAMBDA r : r.set)

\* Every client of the redraw is in the Tile state.
AllTile == \A k \in 1..Len(lay.input.sts) : lay.input.sts[k] = "Tile"

Available ==
    [x |-> lay.input.pads.left, y |-> lay.input.pads.top,
     w |-> lay.input.cfg.screen_w - lay.input.pads.left
             - lay.input.pads.right,
     h |-> lay.input.cfg.screen_h - lay.input.pads.top
             - lay.input.pads.bottom]

Disjoint(r, q) ==
    \/ r.x + r.border + r.w <= q.x + q.border
    \/ q.x + q.border + q.w <= r.x + r.border
    \/ r.y + r.border + r.h <= q.y + q.border
    \/ q.y + q.border + q.h <= r.y + r.border

\* C25: every rectangle a redraw assigns, taken with its border, lies inside
\* the available rectangle; no two assigned rectangles overlap; with two
\* clients or more the right stack, with its borders and gaps, reaches from
\* the top to the bottom of the available height.
C25_TilesFitAvailableArea ==
    (lay.status = "Ok" /\ AllTile) =>
        /\ \A i \in 1..Len(Tiles) :
              LET r == Tiles[i]
              IN  /\ r.x >= Available.x
                  /\ r.y >= Available.y
                  /\ r.x + r.w + 2 * r.border <= Available.x + Available.w
                  /\ r.y + r.h + 2 * r.border <= Available.y + Available.h
        /\ \A i, j \in 1..Len(Tiles) :
              i # j => Disjoint(Tiles[i], Tiles[j])
        /\ (Len(Tiles) >= 2) =>
              /\ Tiles[2].y = Available.y + lay.input.cfg.gap_size
              /\ LET r == Tiles[Len(Tiles)]
                 IN  r.y + r.h + 2 * r.border + lay.input.cfg.gap_size
                        = Available.y + Available.h

\* The tag after the focus binding for dir, and the bindings for two
\* directions one after the other.
AfterKey(t, dir) == focus_binding(t, dir).tag

Opposite(dir) == IF dir = "Left" THEN "Right" ELSE "Left"

\* The clients of the tag the predicate of the bindings accepts.
Eligible(t) == {i \in 1..Len(t.clients) : is_controlled(t.clients[i])}

\* C26: on a tag whose focused client is one of its controlled clients, one
\* step in a direction and then one step in the opposite direction returns
\* the focus to the client that had it, from every position.
C26_FocusRoundTrip ==
    LET t == wk.tag
        p == get_focused_client(t)
    IN  (wk.op # "Hang" /\ p # 0 /\ p \in Eligible(t)) =>
           \A dir \in Dirs :
              /\ ~focus_binding(t, dir).walked.hangs
              /\ AfterKey(AfterKey(t, dir), Opposite(dir)).focused_wid
                    = t.focused_wid

\* Position of the client d steps from position p in the direction, going
\* round the clients of the tag.
CyclicPos(t, p, dir, d) ==
    LET len == Len(t.clients)
    IN  IF dir = "Right" THEN ((p - 1 + d) % len) + 1
        ELSE ((p - 1 + len - d) % len) + 1

\* C28: from the focused client, walk targets the nearest other client in
\* the direction that the predicate accepts, going round from the first
\* client to the last and from the last to the first; move_focus activates
\* the neighbour in the direction, going round in the same way.
C28_FocusIsCyclic ==
    LET t   == wk.tag
        p   == get_focused_client(t)
        len == Len(t.clients)
    IN  (wk.op # "Hang" /\ p # 0) =>
           \A dir \in Dirs :
              LET r == walk(t, 1, dir, IsControlled)
                  steps == {d \in 1..(len - 1) :
                              CyclicPos(t, p, dir, d) \in Eligible(t)}
              IN  /\ ~r.hangs
                  /\ (steps = {}) => (~r.some \/ r.id = t.focused_wid)
                  /\ (steps # {}) =>
                       \E d \in steps :
                          /\ r.some
                          /\ \A e \in steps : d <= e
                          /\ r.id = t.clients[CyclicPos(t, p, dir, d)].id
                  /\ move_focus(len, p - 1, dir) + 1 = CyclicPos(t, p, dir, 1)

C29_KeyPressDispatch ==
    (kb.op # "none") =>
        /\ kb.called = IF kb.combination \in kb.actions
                       THEN <<kb.combination>> ELSE <<>>
        /\ (kb.combination \notin kb.actions) =>
              (kb.res = "Ok" /\ ~kb.logged)

\* The handling of the ButtonPress has ended.
ClickDone == ms.pc = "idle" /\ ms.released

\* Index of the first callback that returns an error, or the number of
\* callbacks when none does.
LastCalled ==
    LET errs == {k \in 1..Len(ms.on_click) : ms.on_click[k] = "Err"}
    IN  IF errs = {} THEN Len(ms.on_click)
        ELSE CHOOSE k \in errs : \A e \in errs : k <= e

\* C30 as stated: the pointer is released before any click callback runs,
\* no callback runs with the pointer frozen, and every registered callback
\* receives the MouseInfo with the child of the event.
C30_AllCallbacksReceive ==
    /\ \A k \in 1..Len(ms.got) :
          ms.released /\ ~ms.got[k].frozen /\ ms.got[k].c_id = ms.child
    /\ ClickDone =>
          \A i \in 1..Len(ms.on_click) :
             \E k \in 1..Len(ms.got) : ms.got[k].cb = i

\* C30: the pointer is released before any click callback runs, no callback
\* runs with the pointer frozen, and the callbacks run once each in the
\* order of registration, with the child of the event, up to and including
\* the first one that returns an error.
C30_ReleaseBeforeCallbacks ==
    /\ \A k \in 1..Len(ms.got) :
          /\ ms.released
          /\ ~ms.got[k].frozen
          /\ ms.got[k].c_id = ms.child
          /\ ms.got[k].cb = k
    /\ Len(ms.got) <= LastCalled
    /\ ClickDone => Len(ms.got) = LastCalled

C30_Witness ==
    /\ ClickDone
    /\ Len(ms.got) = 2
    /\ Len(ms.on_click) = 3
    /\ ms.child # NoClient

\* The state list after the operation has been applied to Fullscreen.
FullscreenApplied(states, operation) ==
    LET has     == \E k \in 1..Len(states) : states[k] = "Fullscreen"
        without == SelectSeq(states, LAMBDA x : x # "Fullscreen")
    IN  CASE operation = "Add"    -> IF has THEN states
                                     ELSE Append(states, "Fullscreen")
          [] operation = "Remove" -> without
          [] operation = "Toggle" -> IF has THEN without
                                     ELSE Append(states, "Fullscreen")
          [] OTHER                -> states

\* C21: a _NET_WM_STATE message with the fullscreen atom for a managed
\* window applies the operation to Fullscreen on its client and arranges the
\* client's tag, which gives a client with the list [Fullscreen] the whole
\* screen without border and a client with the empty list a tile with
\* border; any other message changes no tag.
C21_FullscreenMessage ==
    [][ (last'.op = "ClientMessage") =>
          IF /\ last'.type = "WM_STATE"
             /\ last'.state = "WM_STATE_FULLSCREEN"
             /\ last'.arg \in Managed(tags)
          THEN \A ti \in 1..Len(tags) : \A i \in 1..Len(tags[ti].clients) :
                  (tags[ti].clients[i].id = last'.arg) =>
                     LET after == tags'[ti].clients[i]
                         k     == Len(tags'[sticky_tag(tags')].clients) + i
                     IN  /\ after.states =
                               FullscreenApplied(tags[ti].clients[i].states,
                                                 last'.operation)
                         /\ last'.arranged = ti
                         /\ last'.geometry = refresh_tag(tags', ti)
                         /\ (after.states = <<"Fullscreen">>) =>
                               last'.geometry[k] =
                                  Rect(0, 0, ScreenW, ScreenH, 0)
                         /\ (after.states = <<>> /\ after.is_controlled) =>
                               /\ last'.geometry[k].set
                               /\ last'.geometry[k].border = BorderSize
          ELSE tags' = tags ]_vars

\* C31: the kill binding sends WM_DELETE_WINDOW or KillClient and leaves
\* every tag as it is, a client leaves its tag only when a DestroyNotify is
\* handled, and no step runs kill on a PID.
C31_NeverKillsProcess ==
    [][ /\ (last'.op = "KeyKill") =>
              /\ tags' = tags
              /\ last'.signalled = NoPid
              /\ (last'.arg # NoClient) =>
                    last'.request \in {"WM_DELETE_WINDOW", "KillClient"}
        /\ (last'.op = "DestroyNotify") => last'.signalled = NoPid
        /\ ~(Managed(tags) \subseteq Managed(tags')) =>
              last'.op = "DestroyNotify" ]_vars

\* C32: cycle_idx returns None for the length 0 and, for every length from
\* 1 up and every walk, Some(k) with 0 <= k < s and k equal to the walk
\* modulo s.
C32_CycleIdxIsModulo ==
    (cy.op = "cycle_idx") =>
        IF cy.s = 0 THEN ~cy.res.some
        ELSE /\ cy.res.some
             /\ ~cy.res.wrapped
             /\ cy.res.idx < cy.s
             /\ (cy.res.idx - cy.i) % cy.s = 0

\* The clients of the redraw on its own, and among them the positions of
\* the tileable ones: controlled and in the Tile state.
RedrawClients == LayoutClients(lay.input.pads, lay.input.sts)

Tileable ==
    SelectSeq([i \in 1..Len(RedrawClients) |-> i],
              LAMBDA i : /\ is_controlled(RedrawClients[i])
                         /\ last_state(RedrawClients[i]) = "Tile")

\* The dock and the tileable clients alone.
TileableClients ==
    <<RedrawClients[1]>> \o [k \in 1..Len(Tileable) |-> RedrawClients[Tileable[k]]]

\* C33: a Fullscreen client gets the whole screen and a Maximized client
\* the available area, both without border, and the clients in the Tile
\* state are laid out as if they were the only controlled clients.
C33_TileableSetIsTileOnly ==
    (lay.status = "Ok") =>
        /\ \A i \in 1..Len(RedrawClients) :
              /\ (last_state(RedrawClients[i]) = "Fullscreen") =>
                    lay.out[i] = Rect(0, 0, lay.input.cfg.screen_w,
                                      lay.input.cfg.screen_h, 0)
              /\ (last_state(RedrawClients[i]) = "Maximized") =>
                    lay.out[i] = Rect(Available.x, Available.y,
                                      Available.w, Available.h, 0)
        /\ \A k \in 1..Len(Tileable) :
              lay.out[Tileable[k]] =
                 redraw(TileableClients, lay.input.cfg)[k + 1]

\* C34: a single tile has the available size less two borders and two gaps
\* and starts at (gap + padding_left, gap + padding_top); with two tiles or
\* more the master starts at x = gap, every client of the right stack starts
\* at x = available_w / 2 + gap, and the master is as wide as each of them.
C34_TileGeometry ==
    (lay.status = "Ok" /\ AllTile) =>
        LET b == lay.input.cfg.border_size
            g == lay.input.cfg.gap_size
        IN  IF Len(Tiles) = 1
            THEN /\ Tiles[1].w = Available.w - 2 * b - 2 * g
                 /\ Tiles[1].h = Available.h - 2 * b - 2 * g
                 /\ Tiles[1].x = g + Available.x
                 /\ Tiles[1].y = g + Available.y
            ELSE /\ Tiles[1].x = g
                 /\ \A k \in 2..Len(Tiles) :
                       /\ Tiles[k].x = (Available.w \div 2) + g
                       /\ Tiles[k].w = Tiles[1].w

\* C40: for every input no subtraction of redraw goes below zero, and every
\* rectangle it requests has a width and a height of 1 or more.
C40_NoUnderflow ==
    (lay.status # "none") =>
        /\ lay.status = "Ok"
        /\ \A i \in 1..Len(lay.out) :
              lay.out[i].set => (lay.out[i].w >= 1 /\ lay.out[i].h >= 1)

\* C35: Tag::walk(1, dir, predicate) terminates on every client list with
\* every focused id and in both directions; it returns None only when no
\* client of the list satisfies the predicate, and otherwise the id of a
\* client of the list that satisfies it.
C35_WalkTerminates ==
    \A dir \in Dirs :
        LET t == wk.tag
            r == walk(t, 1, dir, IsControlled)
            satisfying == {i \in 1..Len(t.clients) :
                             call(IsControlled, t.clients[i])}
        IN  /\ ~r.hangs
            /\ (satisfying = {}) <=> ~r.some
            /\ r.some => \E i \in satisfying : t.clients[i].id = r.id

\* C36: the _NET_WM_DESKTOP that MapRequest writes for the client it starts
\* to manage, and the one move_focused_client writes for the client it
\* moves, is the id of the tag that holds the client afterwards.
C36_DesktopIsTagId ==
    (last.op \in {"MapRequest", "KeyMoveFocusedClient"}
       /\ last.wm_desktop # NotWritten) =>
        \E i \in 1..Len(tags) :
            /\ contains_client(tags[i], last.wm_desktop[1])
            /\ tags[i].id = last.wm_desktop[2]

\* C37: a client has the Sticky state exactly when it is a dock, which is
\* exactly when it is not controlled, whatever add_state, remove_state and
\* set_state calls were made on it.
C37_StickyIffDock ==
    has_state(cl, "Sticky") <=> ~cl.is_controlled

\* C38: the sticky tag is the last tag and has the all-ones id, the normal
\* tags have the ids 0, 1, ... in order, so the ids are pairwise distinct,
\* get_tag of a normal id is never the sticky tag and sticky_tag is never a
\* normal tag; and no step changes the number of tags or their ids.
C38_TagIdsDistinct ==
    /\ [](LET n == Len(tags) IN
            /\ n >= 2
            /\ tags[n].id = StickyID
            /\ \A i \in 1..(n - 1) : tags[i].id = i - 1
            /\ \A i, j \in 1..n : i # j => tags[i].id # tags[j].id
            /\ \A i \in 1..(n - 1) : get_tag(tags, tags[i].id) # n
            /\ sticky_tag(tags) = n)
    /\ [][/\ Len(tags') = Len(tags)
          /\ \A i \in 1..Len(tags) : tags'[i].id = tags[i].id]_vars

\* C39: the Screen mutex is never locked while a guard of it is alive, a
\* handler or a callback holds it at most once, and it is free whenever the
\* loop waits for the next event, whatever the handlers and callbacks
\* returned.
C39_NoNestedLock ==
    /\ ~lk.deadlocked
    /\ (lk.pc \in {"wait", "flush", "context", "call", "handler", "exited"})
          => ~lk.held
    /\ lk.held => lk.pc \in {"body", "handler_body"}

\* A KeyPress whose callback took the lock after EventContext::new had
\* taken it, returned an Err, and the loop waits for the next event.
C39_Witness ==
    /\ lk.pc = "wait"
    /\ lk.event = "KEY_PRESS"
    /\ lk.acquired = 2
    /\ lk.outcome = "Err"
====
